---- MODULE Spec2Model ----
(***************************************************************************)
(* Model of the JSON-RPC client of ovs-unixctl (src/src/jsonrpc.rs).       *)
(*                                                                         *)
(* One Client<C> is modelled: its fields `stream` and `last_id`, the       *)
(* position of the call in progress inside send_request, and the           *)
(* transport behind the JsonStreamClient / JsonStream traits, which may    *)
(* fail or deliver any Response at each of connect, send and recv.         *)
(* Strings are TLA+ strings, Option<T> is a sequence of length 0 or 1,     *)
(* and anyhow::Result<T> is a record tagged "Ok" or "Err".                 *)
(***************************************************************************)
EXTENDS Integers, Sequences, FiniteSets, TLC

-----------------------------------------------------------------------------
(* Bounds of the model                                                     *)

\* Number of calls (call, call_params, send_request) made on the client.
MaxCalls == 3

\* Ids a peer may put in a response range over 0 .. MaxCalls + ExtraIds.
ExtraIds == 1

\* Number of threads that share one client.
NThreads == 2

-----------------------------------------------------------------------------
(* Option<T> and Result<T>                                                 *)

None == << >>
Some(v) == << v >>
Option(S) == {None} \cup {Some(v) : v \in S}
IsSome(o) == o # None
Unwrap(o) == o[1]

\* An error carried by anyhow::Error.  src tells where it was raised:
\* "anyhow" for the ad-hoc messages built by anyhow!/bail! in jsonrpc.rs,
\* "connect", "send", "recv" for an error returned by the transport.
Error(src, msg) == [src |-> src, msg |-> msg]

Ok(r) == [tag |-> "Ok", resp |-> Some(r), err |-> None]
Err(e) == [tag |-> "Err", resp |-> None, err |-> Some(e)]

-----------------------------------------------------------------------------
(* Inputs                                                                  *)

Methods == {"ping", "vlog/set"}

ParamLists == { << >>, <<"unixctl:dbg">>, <<"x", "y">>, <<"x, y">> }

Results == {"pong"}

ErrorTexts == {"\"ping\" is not a valid command"}

RespIds == 0 .. (MaxCalls + ExtraIds)

\* Response<R = String>: result, error and id are all optional.
Response == [result : Option(Results), error : Option(ErrorTexts), id : Option(RespIds)]

\* Failures a transport operation may report (the Err side of the Result
\* returned by JsonStreamClient::connect, JsonStream::send and ::recv).
TransportErrors == {"io", "timeout"}

-----------------------------------------------------------------------------
(* State                                                                   *)

VARIABLES
    last_id,    \* Client.last_id (AtomicUsize)
    stream,     \* Client.stream: Option of the connection returned by connect
    pc,         \* position of the call in progress: "idle", "connect", "send", "recv"
    cur,        \* Option: the request of the current (or last) call, with the operation called
    res,        \* Option: the Response the current call received
    proto,      \* Option: what send_request returned to its caller
    outcome,    \* Option: what the called operation returned
    ids,        \* history: ids given out by build_request, in order
    wire,       \* history: requests handed to JsonStream::send, with their connection
    connects,   \* history: number of times JsonStreamClient::connect was invoked
    ops,        \* history: transport operations of the current call, in order
    calls,      \* number of calls started
    inbox,      \* peer: responses written to the connection and not yet read
    answered,   \* peer: number of requests of `wire` the peer has answered
    thr,        \* threads sharing the client: each one's position and request id
    borrow,     \* threads: Option of the thread holding the client by &mut
    fsys,       \* OvsUnixCtl: the run directories' files and OVS_RUNDIR
    ovs         \* OvsUnixCtl: Option of the last operation made, with what it returned

\* What the calls on one client made by one caller leave alone.
aux == << inbox, answered, thr, borrow, fsys, ovs >>

vars == << last_id, stream, pc, cur, res, proto, outcome, ids, wire, connects, ops, calls,
           inbox, answered, thr, borrow, fsys, ovs >>

-----------------------------------------------------------------------------
(* Pure parts of the code                                                  *)

\* AtomicUsize::fetch_add(1, Relaxed): returns the previous value.
\* (usize wrap-around is out of reach: the counter stays below MaxCalls + 1.)
FetchAddLoad(v) == [ret |-> v, new |-> v]
FetchAddNew(v) == [ret |-> v + 1, new |-> v + 1]
FetchAdd(v) == [ret |-> v, new |-> v + 1]

\* build_request: the request carries the id taken from last_id.
build_request(op, method, params, id) ==
    [op |-> op, method |-> method, params |-> params, id |-> id]

\* `if self.stream.is_none()` at the head of send_request.
NeedsConnectAlways(s) == TRUE
NeedsConnect(s) == s = None

NoIdError == Error("anyhow", "no id present in response")
MismatchError == Error("anyhow", "ID missmatch")

\* The correlation check of send_request on a received response.
CheckIdAcceptAny(r, req_id) ==
    IF r.id = None THEN Err(NoIdError) ELSE Ok(r)
CheckIdDefaultId(r, req_id) ==
    IF r.id # None /\ Unwrap(r.id) # req_id THEN Err(MismatchError) ELSE Ok(r)
CheckIdErrorFails(r, req_id) ==
    IF r.id = None THEN Err(NoIdError)
    ELSE IF Unwrap(r.id) # req_id THEN Err(MismatchError)
    ELSE IF r.error # None THEN Err(Error("anyhow", Unwrap(r.error)))
    ELSE Ok(r)
CheckIdAfterError(r, req_id) ==
    IF r.error # None THEN Ok(r)
    ELSE IF r.id = None THEN Err(NoIdError)
    ELSE IF Unwrap(r.id) # req_id THEN Err(MismatchError)
    ELSE Ok(r)
CheckId(r, req_id) ==
    IF r.id = None THEN Err(NoIdError)
    ELSE IF Unwrap(r.id) # req_id THEN Err(MismatchError)
    ELSE Ok(r)

\* params.iter().map(|p| p.as_ref()).collect::<Vec<&str>>().join(", ")
RECURSIVE Join(_, _)
Join(params, sep) ==
    IF params = << >> THEN ""
    ELSE IF Len(params) = 1 THEN params[1]
    ELSE params[1] \o sep \o Join(Tail(params), sep)

\* The tail of call: the error field of the response decides.
CallResultResultFirst(method, p) ==
    IF p.tag = "Err" THEN p
    ELSE IF Unwrap(p.resp).result # None THEN p
    ELSE IF Unwrap(p.resp).error # None
         THEN Err(Error("anyhow", "Failed to run command " \o method \o ": "
                                  \o Unwrap(Unwrap(p.resp).error)))
         ELSE p
CallResult(method, p) ==
    IF p.tag = "Err" THEN p
    ELSE IF Unwrap(p.resp).error # None
         THEN Err(Error("anyhow", "Failed to run command " \o method \o ": "
                                  \o Unwrap(Unwrap(p.resp).error)))
         ELSE p

\* The tail of call_params.
CallParamsResultNoParams(method, params, p) ==
    IF p.tag = "Err" THEN p
    ELSE IF Unwrap(p.resp).error # None
         THEN Err(Error("anyhow", "Failed to run command " \o method \o " with params []: "
                                  \o Unwrap(Unwrap(p.resp).error)))
         ELSE p
CallParamsResult(method, params, p) ==
    IF p.tag = "Err" THEN p
    ELSE IF Unwrap(p.resp).error # None
         THEN Err(Error("anyhow", "Failed to run command " \o method \o " with params ["
                                  \o Join(params, ", ") \o "]: "
                                  \o Unwrap(Unwrap(p.resp).error)))
         ELSE p

\* What the operation called returns, given what send_request returned.
Wrap(c, p) ==
    CASE c.op = "call" -> CallResult(c.method, p)
      [] c.op = "call_params" -> CallParamsResult(c.method, c.params, p)
      [] OTHER -> p

\* The threads that may hold a reference to the client.
Threads == 1 .. NThreads

\* A file system without pidfile and without socket, OVS_RUNDIR unset.
NoFiles == [pidfile |-> None, socks |-> {}, env |-> None]

-----------------------------------------------------------------------------
(* Init: the state built by Client::new                                    *)

InitClient ==
    /\ last_id = 1
    /\ stream = None
    /\ pc = "idle"
    /\ cur = None
    /\ res = None
    /\ proto = None
    /\ outcome = None
    /\ ids = << >>
    /\ wire = << >>
    /\ connects = 0
    /\ ops = << >>
    /\ calls = 0
    /\ inbox = << >>
    /\ answered = 0
    /\ thr = [t \in Threads |-> [pc |-> "out", id |-> None]]
    /\ borrow = None
    /\ ovs = None

Init ==
    /\ InitClient
    /\ fsys = NoFiles

-----------------------------------------------------------------------------
(* Actions                                                                 *)

\* Entry of send_request with request c: the call starts at the connect
\* step when the client holds no stream, at the send step otherwise.
Enter(c) ==
    /\ cur' = Some(c)
    /\ pc' = IF NeedsConnect(stream) THEN "connect" ELSE "send"
    /\ res' = None
    /\ proto' = None
    /\ outcome' = None
    /\ ops' = << >>
    /\ calls' = calls + 1
    /\ UNCHANGED << stream, wire, connects >>

\* Return of the call: send_request returned p.
Return(p) ==
    /\ proto' = Some(p)
    /\ outcome' = Some(Wrap(Unwrap(cur), p))
    /\ pc' = "idle"

\* Client::call(method)
Call ==
    /\ pc = "idle"
    /\ UNCHANGED aux
    /\ calls < MaxCalls
    /\ \E method \in Methods :
          /\ Enter(build_request("call", method, << >>, FetchAdd(last_id).ret))
          /\ last_id' = FetchAdd(last_id).new
          /\ ids' = Append(ids, FetchAdd(last_id).ret)

\* Client::call_params(method, params)
CallParams ==
    /\ pc = "idle"
    /\ UNCHANGED aux
    /\ calls < MaxCalls
    /\ \E method \in Methods, params \in ParamLists :
          /\ Enter(build_request("call_params", method, params, FetchAdd(last_id).ret))
          /\ last_id' = FetchAdd(last_id).new
          /\ ids' = Append(ids, FetchAdd(last_id).ret)

\* Client::send_request(request) called with a request built by the caller.
SendRequest ==
    /\ pc = "idle"
    /\ UNCHANGED aux
    /\ calls < MaxCalls
    /\ \E method \in Methods, id \in RespIds :
          Enter(build_request("send_request", method, << >>, id))
    /\ UNCHANGED << last_id, ids >>

\* self.stream = Some(self.stream_client.connect()?) : connect succeeds.
ConnectOk ==
    /\ pc = "connect"
    /\ UNCHANGED aux
    /\ connects' = connects + 1
    /\ stream' = Some(connects + 1)
    /\ ops' = Append(ops, [op |-> "connect", ok |-> TRUE])
    /\ pc' = "send"
    /\ UNCHANGED << last_id, cur, res, proto, outcome, ids, wire, calls >>

\* connect()? fails: send_request returns the error.
ConnectFailRollback ==
    /\ pc = "connect"
    /\ UNCHANGED aux
    /\ connects' = connects + 1
    /\ ops' = Append(ops, [op |-> "connect", ok |-> FALSE])
    /\ \E e \in TransportErrors : Return(Err(Error("connect", e)))
    /\ last_id' = IF Unwrap(cur).op = "send_request" THEN last_id ELSE Unwrap(cur).id
    /\ UNCHANGED << stream, cur, res, ids, wire, calls >>
ConnectFailHalfOpen ==
    /\ pc = "connect"
    /\ UNCHANGED aux
    /\ connects' = connects + 1
    /\ stream' = Some(connects + 1)
    /\ ops' = Append(ops, [op |-> "connect", ok |-> FALSE])
    /\ \E e \in TransportErrors : Return(Err(Error("connect", e)))
    /\ UNCHANGED << last_id, cur, res, ids, wire, calls >>
ConnectFail ==
    /\ pc = "connect"
    /\ UNCHANGED aux
    /\ connects' = connects + 1
    /\ ops' = Append(ops, [op |-> "connect", ok |-> FALSE])
    /\ \E e \in TransportErrors : Return(Err(Error("connect", e)))
    /\ UNCHANGED << last_id, stream, cur, res, ids, wire, calls >>

\* stream.send(request)? succeeds: the request is on the connection.
\* (The println! of serde_json::to_string(&request)? before it cannot fail
\* for a Request, whose fields are strings and a usize.)
SendOk ==
    /\ pc = "send"
    /\ UNCHANGED aux
    /\ wire' = Append(wire, [conn |-> Unwrap(stream), id |-> Unwrap(cur).id])
    /\ ops' = Append(ops, [op |-> "send", ok |-> TRUE])
    /\ pc' = "recv"
    /\ UNCHANGED << last_id, stream, cur, res, proto, outcome, ids, connects, calls >>

\* stream.send(request)? fails.
SendFailContinue ==
    /\ pc = "send"
    /\ UNCHANGED aux
    /\ ops' = Append(ops, [op |-> "send", ok |-> FALSE])
    /\ pc' = "recv"
    /\ UNCHANGED << last_id, stream, cur, res, proto, outcome, ids, wire, connects, calls >>
SendFail ==
    /\ pc = "send"
    /\ UNCHANGED aux
    /\ ops' = Append(ops, [op |-> "send", ok |-> FALSE])
    /\ \E e \in TransportErrors : Return(Err(Error("send", e)))
    /\ UNCHANGED << last_id, stream, cur, res, ids, wire, connects, calls >>

\* stream.recv()? delivers a response; the correlation check and the
\* caller's look at the error field follow without touching the transport.
RecvDeliver(r) ==
    /\ pc = "recv"
    /\ ops' = Append(ops, [op |-> "recv", ok |-> TRUE])
    /\ res' = Some(r)
    /\ Return(CheckId(r, Unwrap(cur).id))
    /\ UNCHANGED << last_id, stream, cur, ids, wire, connects, calls >>

\* The transport may deliver any response.
RecvOkRetry ==
    /\ pc = "recv"
    /\ UNCHANGED aux
    /\ \E r \in Response :
          IF CheckId(r, Unwrap(cur).id).tag = "Ok"
          THEN RecvDeliver(r)
          ELSE /\ res' = Some(r)
               /\ UNCHANGED << last_id, stream, pc, cur, proto, outcome, ids, wire, connects,
                               ops, calls >>
RecvOk ==
    /\ \E r \in Response : RecvDeliver(r)
    /\ UNCHANGED aux

\* stream.recv()? fails (read error, timeout, malformed JSON).
RecvFailDrop ==
    /\ pc = "recv"
    /\ UNCHANGED aux
    /\ ops' = Append(ops, [op |-> "recv", ok |-> FALSE])
    /\ \E e \in TransportErrors : Return(Err(Error("recv", e)))
    /\ stream' = None
    /\ UNCHANGED << last_id, cur, res, ids, wire, connects, calls >>
RecvFail ==
    /\ pc = "recv"
    /\ UNCHANGED aux
    /\ ops' = Append(ops, [op |-> "recv", ok |-> FALSE])
    /\ \E e \in TransportErrors : Return(Err(Error("recv", e)))
    /\ UNCHANGED << last_id, stream, cur, res, ids, wire, connects, calls >>

Next ==
    \/ Call
    \/ CallParams
    \/ SendRequest
    \/ ConnectOk
    \/ ConnectFail
    \/ SendOk
    \/ SendFail
    \/ RecvOk
    \/ RecvFail

Spec == Init /\ [][Next]_vars

\* A transport operation under way returns: connect, send and recv each
\* end, with a value or with an error.
TransportStep ==
    \/ ConnectOk
    \/ ConnectFail
    \/ SendOk
    \/ SendFail
    \/ RecvOk
    \/ RecvFail

\* The client called through call and call_params, as ovs.rs does, with a
\* transport whose operations always return.
LiveNext ==
    \/ Call
    \/ CallParams
    \/ TransportStep

LiveSpec == Init /\ [][LiveNext]_vars /\ WF_vars(TransportStep)

-----------------------------------------------------------------------------
(* The client against a peer that answers in order                         *)
(*                                                                         *)
(* The peer answers every request that reached it exactly once, in the     *)
(* order of the requests, with the request's own id.  recv returns the     *)
(* oldest response not yet read; while none has arrived it may give up     *)
(* (timeout, read error), reading nothing.  Requests are built by call and *)
(* call_params.                                                            *)

\* What the peer may answer to a request with this id.
PeerResponses(id) ==
    {r \in Response : r.id = Some(id) /\ (r.result = None) # (r.error = None)}

\* The peer answers the oldest request it has not answered yet.
PeerAnswer ==
    /\ answered < Len(wire)
    /\ \E r \in PeerResponses(wire[answered + 1].id) : inbox' = Append(inbox, r)
    /\ answered' = answered + 1
    /\ UNCHANGED << last_id, stream, pc, cur, res, proto, outcome, ids, wire, connects, ops,
                    calls, thr, borrow, fsys, ovs >>

\* stream.recv()? reads the oldest unread response.
PeerRecvOk ==
    /\ inbox # << >>
    /\ RecvDeliver(Head(inbox))
    /\ inbox' = Tail(inbox)
    /\ UNCHANGED << answered, thr, borrow, fsys, ovs >>

\* stream.recv()? fails before a response has arrived.
PeerRecvFail ==
    /\ inbox = << >>
    /\ RecvFail

PeerNext ==
    \/ Call
    \/ CallParams
    \/ ConnectOk
    \/ ConnectFail
    \/ SendOk
    \/ SendFail
    \/ PeerAnswer
    \/ PeerRecvOk
    \/ PeerRecvFail

PeerSpec == Init /\ [][PeerNext]_vars

-----------------------------------------------------------------------------
(* Several threads on one client                                           *)
(*                                                                         *)
(* call, call_params and send_request take `&mut self`: a thread is inside *)
(* one of them only while it holds the client exclusively.  build_request  *)
(* takes `&self`: threads holding the client shared may be inside it       *)
(* together, and its only step on shared state is the atomic fetch_add.    *)

\* The client can be taken by &mut: no thread holds it, by &mut or by &.
MutBorrowFreeAlways(t) == TRUE
MutBorrowFree(t) ==
    /\ borrow = None
    /\ \A u \in Threads : thr[u].pc # "alloc"

\* Thread t reaches position p.
Goto(t, p) == thr' = [thr EXCEPT ![t].pc = p]

\* Thread t returns from its call and gives the client back.
TReturn(t) ==
    /\ Goto(t, "out")
    /\ borrow' = IF borrow = Some(t) THEN None ELSE borrow

\* Thread t enters call / call_params with the client taken by &mut.
TCall(t) ==
    /\ thr[t].pc = "out"
    /\ calls < MaxCalls
    /\ MutBorrowFree(t)
    /\ borrow' = Some(t)
    /\ Goto(t, "build")
    /\ calls' = calls + 1
    /\ UNCHANGED << last_id, stream, pc, cur, res, proto, outcome, ids, wire, connects, ops,
                    inbox, answered, fsys, ovs >>

\* Thread t enters build_request with the client taken by &.
TBuildRequest(t) ==
    /\ thr[t].pc = "out"
    /\ calls < MaxCalls
    /\ borrow = None
    /\ Goto(t, "alloc")
    /\ calls' = calls + 1
    /\ UNCHANGED << last_id, stream, pc, cur, res, proto, outcome, ids, wire, connects, ops,
                    inbox, answered, borrow, fsys, ovs >>

\* self.last_id.fetch_add(1, Relaxed) by thread t: one atomic step.  After
\* it build_request returns; inside call the thread goes on to send_request.
TAllocRacy(t) ==
    /\ thr[t].pc \in {"alloc", "build"}
    /\ \E seen \in 1 .. last_id :
          /\ last_id' = seen + 1
          /\ ids' = Append(ids, seen)
          /\ thr' = [thr EXCEPT ![t].id = Some(seen),
                                ![t].pc = IF thr[t].pc = "alloc" THEN "out"
                                          ELSE IF NeedsConnect(stream) THEN "connect"
                                          ELSE "send"]
    /\ UNCHANGED << stream, pc, cur, res, proto, outcome, wire, connects, ops, calls,
                    inbox, answered, borrow, fsys, ovs >>
TAlloc(t) ==
    /\ thr[t].pc \in {"alloc", "build"}
    /\ last_id' = FetchAdd(last_id).new
    /\ ids' = Append(ids, FetchAdd(last_id).ret)
    /\ thr' = [thr EXCEPT ![t].id = Some(FetchAdd(last_id).ret),
                          ![t].pc = IF thr[t].pc = "alloc" THEN "out"
                                    ELSE IF NeedsConnect(stream) THEN "connect"
                                    ELSE "send"]
    /\ UNCHANGED << stream, pc, cur, res, proto, outcome, wire, connects, ops, calls,
                    inbox, answered, borrow, fsys, ovs >>

\* connect by thread t succeeds.
TConnectOk(t) ==
    /\ thr[t].pc = "connect"
    /\ connects' = connects + 1
    /\ stream' = Some(connects + 1)
    /\ Goto(t, "send")
    /\ UNCHANGED << last_id, pc, cur, res, proto, outcome, ids, wire, ops, calls,
                    inbox, answered, borrow, fsys, ovs >>

\* connect by thread t fails: its call returns.
TConnectFail(t) ==
    /\ thr[t].pc = "connect"
    /\ connects' = connects + 1
    /\ TReturn(t)
    /\ UNCHANGED << last_id, stream, pc, cur, res, proto, outcome, ids, wire, ops, calls,
                    inbox, answered, fsys, ovs >>

\* send by thread t succeeds: its request is on the connection.
TSendOk(t) ==
    /\ thr[t].pc = "send"
    /\ wire' = Append(wire, [conn |-> Unwrap(stream), id |-> Unwrap(thr[t].id)])
    /\ Goto(t, "recv")
    /\ UNCHANGED << last_id, stream, pc, cur, res, proto, outcome, ids, connects, ops, calls,
                    inbox, answered, borrow, fsys, ovs >>

\* send by thread t fails: its call returns.
TSendFail(t) ==
    /\ thr[t].pc = "send"
    /\ TReturn(t)
    /\ UNCHANGED << last_id, stream, pc, cur, res, proto, outcome, ids, wire, connects, ops,
                    calls, inbox, answered, fsys, ovs >>

\* recv by thread t returns, with a response or an error: its call returns.
TRecv(t) ==
    /\ thr[t].pc = "recv"
    /\ TReturn(t)
    /\ UNCHANGED << last_id, stream, pc, cur, res, proto, outcome, ids, wire, connects, ops,
                    calls, inbox, answered, fsys, ovs >>

ThreadNext ==
    \E t \in Threads :
        \/ TCall(t)
        \/ TBuildRequest(t)
        \/ TAlloc(t)
        \/ TConnectOk(t)
        \/ TConnectFail(t)
        \/ TSendOk(t)
        \/ TSendFail(t)
        \/ TRecv(t)

ThreadSpec == Init /\ [][ThreadNext]_vars

-----------------------------------------------------------------------------
(* OvsUnixCtl: locating the control socket, construction, error conversion *)

Targets == {"ovs-vswitchd", "daemon"}

RunDirs == {"/var/run/openvswitch", "/tmp/x"}

PidContents == {"", "\n", "4242\n", "4242", " 77 \n"}

Pids == {"4242", "77"}

Timeouts == {None, Some("5s")}

\* Path::join of a directory and a relative file name.
PathJoin(dir, name) == dir \o "/" \o name

PidPaths == {PathJoin(d, t \o ".pid") : d \in RunDirs, t \in Targets}

SockPaths == {PathJoin(d, t \o "." \o p \o ".ctl") : d \in RunDirs, t \in Targets, p \in Pids}

\* OVS_RUNDIR: unset, set to text, or set to something that is not unicode.
EnvValues == {None} \cup {Some([unicode |-> TRUE, val |-> d]) : d \in RunDirs}
                    \cup {Some([unicode |-> FALSE, val |-> ""])}

\* The file systems looked at: at most one pidfile, at most one socket.
FileSystems ==
    [pidfile : Option([path : PidPaths, content : PidContents]),
     socks : {{}} \cup {{p} : p \in SockPaths},
     env : EnvValues]

IsWhitespace(c) == c \in {" ", "\n", "\t", "\r"}

\* str::trim: leading and trailing whitespace removed.
RECURSIVE TrimStart(_)
TrimStart(s) ==
    IF Len(s) > 0 /\ IsWhitespace(SubSeq(s, 1, 1)) THEN TrimStart(SubSeq(s, 2, Len(s))) ELSE s

RECURSIVE TrimEnd(_)
TrimEnd(s) ==
    IF Len(s) > 0 /\ IsWhitespace(SubSeq(s, Len(s), Len(s)))
    THEN TrimEnd(SubSeq(s, 1, Len(s) - 1))
    ELSE s

TrimEndOnly(s) == TrimEnd(s)
Trim(s) == TrimStart(TrimEnd(s))

\* {:?} of a path.
Debug(path) == "\"" \o path \o "\""

\* fs::read_to_string(path): the content, or the io::Error of a missing file.
read_to_string(fs, path) ==
    IF fs.pidfile # None /\ Unwrap(fs.pidfile).path = path
    THEN Ok(Unwrap(fs.pidfile).content)
    ELSE Err(Error("io", "NotFound"))

\* OvsUnixCtl::find_socket_at(target, rundir).  (fs::exists fails only on a
\* path that can be neither found nor ruled out; no such path is modelled.)
find_socket_at(fs, target, rundir) ==
    LET pidfile_path == PathJoin(rundir, target \o ".pid")
        read == read_to_string(fs, pidfile_path)
    IN  IF read.tag = "Err" THEN read
        ELSE LET pid_str == Trim(Unwrap(read.resp))
                 sock_path == PathJoin(rundir, target \o "." \o pid_str \o ".ctl")
             IN  IF pid_str = ""
                 THEN Err(Error("anyhow", "pidfile is empty: " \o Debug(pidfile_path)))
                 ELSE IF sock_path \notin fs.socks
                 THEN Err(Error("anyhow", "failed to find control socket for target "
                                          \o target))
                 ELSE Ok(sock_path)

\* OvsUnixCtl::find_socket(target): the run directory comes from OVS_RUNDIR.
find_socket(fs, target) ==
    IF fs.env = None THEN find_socket_at(fs, target, "/var/run/openvswitch")
    ELSE IF ~Unwrap(fs.env).unicode
         THEN Err(Error("anyhow", "OVS_RUNDIR non-unicode content"))
         ELSE find_socket_at(fs, target, Unwrap(fs.env).val)

\* UnixJsonStreamClient::new(path) and .timeout(t): the path and the timeout
\* are stored; no socket is opened before connect().
UnixJsonStreamClient(path, timeout) ==
    [path |-> path, timeout |-> timeout, opened |-> FALSE]

\* Client::new(stream_client)
ClientNewEager(stream_client) ==
    [stream_client |-> stream_client, stream |-> Some(1), last_id |-> 1]
ClientNew(stream_client) ==
    [stream_client |-> stream_client, stream |-> None, last_id |-> 1]

\* Client::unix(sock_path, timeout)
ClientUnix(sock_path, timeout) == ClientNew(UnixJsonStreamClient(sock_path, timeout))

\* OvsUnixCtl::unix(path, timeout)
OvsUnixCtlUnix(path, timeout) == Ok([client |-> ClientUnix(path, timeout)])

\* OvsUnixCtl::with_target(target); OvsUnixCtl::new() is with_target("ovs-vswitchd").
with_target(fs, target) ==
    LET sockpath == find_socket(fs, target)
    IN  IF sockpath.tag = "Err" THEN sockpath
        ELSE OvsUnixCtlUnix(Unwrap(sockpath.resp), Some("5s"))

\* serde_json::error::Category
Categories == {"Io", "Syntax", "Data", "Eof"}

\* impl From<serde_json::Error> for Error
ErrorFromEofIsIo(category) ==
    IF category \in {"Io", "Eof"} THEN [kind |-> "Socket"] ELSE [kind |-> "Serialize"]
ErrorFrom(category) ==
    IF category = "Io" THEN [kind |-> "Socket"] ELSE [kind |-> "Serialize"]

\* What an operation of OvsUnixCtl that connects nothing leaves alone.
others == << last_id, stream, pc, cur, res, proto, outcome, ids, wire, connects, ops, calls,
             inbox, answered, thr, borrow, fsys >>

\* The record of an operation of OvsUnixCtl and of what it returned.
Did(op, a, b, ret) == Some([op |-> op, a |-> a, b |-> b, ret |-> ret])

FindSocketAt ==
    /\ \E t \in Targets, d \in RunDirs :
          ovs' = Did("find_socket_at", t, d, find_socket_at(fsys, t, d))
    /\ UNCHANGED others

New ==
    /\ ovs' = Did("new", "ovs-vswitchd", "", with_target(fsys, "ovs-vswitchd"))
    /\ UNCHANGED others

WithTarget ==
    /\ \E t \in Targets : ovs' = Did("with_target", t, "", with_target(fsys, t))
    /\ UNCHANGED others

Unix ==
    /\ \E p \in SockPaths, t \in Timeouts : ovs' = Did("unix", p, t, OvsUnixCtlUnix(p, t))
    /\ UNCHANGED others

Convert ==
    /\ \E c \in Categories : ovs' = Did("from", c, "", ErrorFrom(c))
    /\ UNCHANGED others

OvsInit ==
    /\ InitClient
    /\ fsys \in FileSystems

OvsNext ==
    \/ FindSocketAt
    \/ New
    \/ WithTarget
    \/ Unix
    \/ Convert

OvsSpec == OvsInit /\ [][OvsNext]_vars

-----------------------------------------------------------------------------
(* Helpers of the properties                                               *)

\* sub occurs in s as a contiguous piece.
Contains(sub, s) ==
    \E i \in 0 .. (Len(s) - Len(sub)) : SubSeq(s, i + 1, i + Len(sub)) = sub

\* s ends with sub.
EndsWith(sub, s) ==
    /\ Len(sub) <= Len(s)
    /\ SubSeq(s, Len(s) - Len(sub) + 1, Len(s)) = sub

Wrappers == {"call", "call_params"}

\* A call has returned.
Returned == pc = "idle" /\ outcome # None

\* A call has returned after receiving a response.
Answered == Returned /\ res # None

\* The response received carries the id of the request sent.
IdMatches == Unwrap(res).id = Some(Unwrap(cur).id)

\* Number of operations named op the current call made on the transport.
Count(op) == Cardinality({i \in DOMAIN ops : ops[i].op = op})

-----------------------------------------------------------------------------
(* Properties                                                              *)

\* C1: the ids of the requests built by call and call_params are 1, 2, 3, ...
\* in the order of the calls: the k-th call builds the request with id k.
C1_IdsCountFromOne ==
    /\ \A k \in DOMAIN ids : ids[k] = k
    /\ (cur # None /\ Unwrap(cur).op \in Wrappers) => Unwrap(cur).id = Len(ids)

C1_Witness ==
    /\ Len(ids) = 3
    /\ Unwrap(cur).op = "call_params"
    /\ Returned

\* C2: send_request returns a Response only when the response's id equals
\* the id of the request it sent; on a response with another id it fails
\* with the id-mismatch error, returns no Response, and has sent once and
\* read once (no retry, no second read).
C2_OnlyMatchingIdAccepted ==
    Returned =>
        LET p == Unwrap(proto) IN
        /\ p.tag = "Ok" => (res # None /\ IdMatches /\ p.resp = res)
        /\ (res # None /\ Unwrap(res).id # None /\ ~IdMatches) =>
              /\ p = Err(MismatchError)
              /\ p.resp = None
              /\ Unwrap(outcome) = p
              /\ Count("send") = 1
              /\ Count("recv") = 1

C2_Witness ==
    /\ Answered
    /\ Unwrap(res).id # None
    /\ ~IdMatches
    /\ Unwrap(res).result # None
    /\ Unwrap(proto) = Err(MismatchError)

C5_ErrorWinsOverResult ==
    (Answered /\ Unwrap(cur).op \in Wrappers /\ IdMatches) =>
        LET r == Unwrap(res)
            o == Unwrap(outcome)
        IN  /\ (r.result # None /\ r.error # None) => (o.tag = "Err" /\ o.resp = None)
            /\ (r.result = None /\ r.error = None) => (o = Ok(r) /\ Unwrap(o.resp).result = None)

C5_Witness ==
    /\ Answered
    /\ Unwrap(cur).op = "call"
    /\ IdMatches
    /\ Unwrap(res).result # None
    /\ Unwrap(res).error # None
    /\ Unwrap(outcome).tag = "Err"

\* C6: send_request returns every response with the matching id, its error
\* field as received; only call and call_params turn a present error field
\* into a failure.
C6_TwoLayers ==
    (Answered /\ IdMatches) =>
        /\ Unwrap(proto) = Ok(Unwrap(res))
        /\ Unwrap(Unwrap(proto).resp).error = Unwrap(res).error
        /\ Unwrap(cur).op = "send_request" => Unwrap(outcome) = Unwrap(proto)
        /\ (Unwrap(cur).op \in Wrappers /\ Unwrap(res).error # None) =>
              Unwrap(outcome).tag = "Err"

C6_Witness ==
    /\ Answered
    /\ IdMatches
    /\ Unwrap(cur).op = "call"
    /\ Unwrap(res).error # None
    /\ Unwrap(proto).tag = "Ok"
    /\ Unwrap(Unwrap(proto).resp).error # None
    /\ Unwrap(outcome).tag = "Err"

\* C7: when the n-th call is answered with {result: r, error: null, id: n}
\* it succeeds and returns r as the result.
C7_ResultReturned ==
    (/\ Answered
     /\ Unwrap(cur).op \in Wrappers
     /\ Unwrap(res).id = Some(Len(ids))
     /\ Unwrap(res).error = None
     /\ Unwrap(res).result # None) =>
        /\ Unwrap(outcome).tag = "Ok"
        /\ Unwrap(Unwrap(outcome).resp).result = Unwrap(res).result

C7_Witness ==
    /\ Answered
    /\ Unwrap(cur).op = "call"
    /\ Unwrap(cur).method = "ping"
    /\ Len(ids) = 1
    /\ Unwrap(res) = [result |-> Some("pong"), error |-> None, id |-> Some(1)]
    /\ Unwrap(Unwrap(outcome).resp).result = Some("pong")

\* C8: a new client has made no connect; a call on a client without
\* connection starts with connect; once the client holds a connection no
\* connect is made again, and every request sent went over that connection.
C8_LazySingleConnection ==
    /\ (connects = 0 /\ stream = None)
    /\ [](/\ connects = 0 => stream = None
          /\ wire # << >> => stream # None
          /\ \A i \in DOMAIN wire : wire[i].conn = Unwrap(stream))
    /\ [][/\ (stream = None /\ pc = "idle" /\ pc' # "idle") => pc' = "connect"
          /\ (stream = None /\ wire' # wire) => FALSE
          /\ stream # None => (connects' = connects /\ stream' = stream)]_vars

C8_Witness ==
    /\ Returned
    /\ connects = 2
    /\ Len(wire) = 2
    /\ stream # None

\* C9: a client that holds a connection holds the same one after every
\* step, also after a call that failed.
C9_NeverDisconnected ==
    /\ [][stream # None => stream' = stream]_vars
    /\ []((Returned /\ Unwrap(outcome).tag = "Err" /\ ops # << >> /\ ops[1].op = "send")
            => stream # None)

C9_Witness ==
    /\ Returned
    /\ Unwrap(outcome).tag = "Err"
    /\ Unwrap(Unwrap(outcome).err).src = "recv"
    /\ ops[1].op = "send"
    /\ stream # None

\* C10: the transport operations of one call are, in this order, at most one
\* connect, one send and one recv; a connect is made only without
\* connection; a failed operation is the last one of its call and its error
\* is what the call returns.
C10_StepOrderNoRetry ==
    /\ [](/\ [i \in DOMAIN ops |-> ops[i].op] \in
               { << >>, <<"connect">>, <<"connect", "send">>, <<"connect", "send", "recv">>,
                 <<"send">>, <<"send", "recv">> }
          /\ \A i \in DOMAIN ops : ~ops[i].ok =>
               /\ i = Len(ops)
               /\ Returned
               /\ Unwrap(outcome).tag = "Err"
               /\ Unwrap(Unwrap(outcome).err).src = ops[i].op
               /\ Unwrap(outcome) = Unwrap(proto))
    /\ [][connects' # connects => (stream = None /\ connects' = connects + 1)]_vars

C10_Witness ==
    /\ Returned
    /\ [i \in DOMAIN ops |-> ops[i].op] = <<"connect", "send">>
    /\ ~ops[2].ok
    /\ Unwrap(Unwrap(outcome).err).src = "send"

\* C11: at most one thread has sent a request on the client's connection
\* without its call having returned; more, at most one thread is inside a
\* call at all, and it is the one holding the client by &mut.
C11_OneInFlight ==
    /\ Cardinality({t \in Threads : thr[t].pc = "recv"}) <= 1
    /\ Cardinality({t \in Threads : thr[t].pc \in {"build", "connect", "send", "recv"}}) <= 1
    /\ \A t \in Threads : thr[t].pc \in {"build", "connect", "send", "recv"} => borrow = Some(t)

C11_Witness ==
    /\ thr[1].pc = "recv"
    /\ thr[2].pc = "out"
    /\ thr[2].id # None
    /\ Len(wire) = 2

\* C12: whatever the interleaving of the threads, the ids allocated so far
\* are 1 .. N without repeats, N the number of allocations, and no two
\* threads hold the same id.
C12_AtomicAllocation ==
    /\ \A i, j \in DOMAIN ids : i # j => ids[i] # ids[j]
    /\ {ids[i] : i \in DOMAIN ids} = 1 .. Len(ids)
    /\ \A t, u \in Threads : (t # u /\ thr[t].id # None) => thr[t].id # thr[u].id

C12_Witness ==
    /\ calls = 2
    /\ Len(ids) = 2
    /\ thr[1].id = Some(2)
    /\ thr[2].id = Some(1)

\* C13: every call or call_params advances the counter by exactly one and
\* takes the id that follows the id of the call before it, whatever that
\* call returned; no step of a call in progress, failing or not, moves the
\* counter.
C13_CounterAdvances ==
    /\ [](last_id = Len(ids) + 1)
    /\ [][/\ (pc = "idle" /\ pc' # "idle" /\ Unwrap(cur').op \in Wrappers) =>
                /\ last_id' = last_id + 1
                /\ Unwrap(cur').id = last_id
                /\ ids # << >> => Unwrap(cur').id = ids[Len(ids)] + 1
          /\ pc # "idle" => (last_id' = last_id /\ ids' = ids)]_vars

\* The first call failed at connect; the second one carries id 2.
C13_Witness ==
    /\ calls = 2
    /\ Len(ids) = 2
    /\ connects = 1
    /\ stream = None
    /\ pc = "connect"
    /\ Unwrap(cur).id = 2

\* C18: a response without id or with another id that also carries an error
\* makes call and call_params fail with the correlation error; the error is
\* not the command error and does not hold the daemon's text.
C18_CorrelationBeforeError ==
    (Answered /\ Unwrap(cur).op \in Wrappers /\ ~IdMatches /\ Unwrap(res).error # None) =>
        LET o == Unwrap(outcome) IN
        /\ o = Err(IF Unwrap(res).id = None THEN NoIdError ELSE MismatchError)
        /\ ~Contains(Unwrap(Unwrap(res).error), Unwrap(o.err).msg)
        /\ ~Contains("Failed to run command", Unwrap(o.err).msg)

C18_Witness ==
    /\ Answered
    /\ Unwrap(cur).op = "call_params"
    /\ Unwrap(res).id # None
    /\ ~IdMatches
    /\ Unwrap(res).error # None
    /\ Unwrap(outcome) = Err(MismatchError)

\* C19: a connect that fails ends the call with the connect error, leaves
\* the client without connection and puts nothing on the wire; the next
\* call on the client starts with connect again.
C19_FailedConnect ==
    /\ [][(pc = "connect" /\ pc' = "idle") =>
             /\ stream' = None
             /\ wire' = wire
             /\ Unwrap(proto').tag = "Err"
             /\ Unwrap(Unwrap(proto').err).src = "connect"
             /\ outcome' = proto']_vars
    /\ [][(pc = "idle" /\ pc' # "idle" /\ stream = None) => pc' = "connect"]_vars
    /\ []((Returned /\ ops # << >> /\ ~ops[1].ok /\ ops[1].op = "connect") =>
             (stream = None /\ Len(ops) = 1))

\* The first call failed at connect, the second one connected: the first
\* request on the wire carries id 2.
C19_Witness ==
    /\ connects = 2
    /\ wire # << >>
    /\ wire[1].id = 2
    /\ Len(ids) = 2

\* C20: a call makes at most three transport operations, each step of a
\* call in progress is one of them, and when they all return the call
\* returns, with either a Response or one error.
C20_CallTerminates ==
    /\ [](/\ Len(ops) <= 3
          /\ Returned => \/ Unwrap(outcome).tag = "Ok" /\ Unwrap(outcome).resp # None
                                                       /\ Unwrap(outcome).err = None
                         \/ Unwrap(outcome).tag = "Err" /\ Unwrap(outcome).resp = None
                                                        /\ Unwrap(outcome).err # None)
    /\ [][pc # "idle" => Len(ops') = Len(ops) + 1]_vars
    /\ (pc # "idle") ~> Returned

C20_Witness ==
    /\ Returned
    /\ Len(ops) = 3
    /\ Unwrap(outcome).tag = "Ok"

\* Number of responses the client has read from the connection.
Reads == answered - Len(inbox)

\* Number of operations named op of the current call that succeeded.
CountOk(op) == Cardinality({i \in DOMAIN ops : ops[i].op = op /\ ops[i].ok})

\* Number of requests sent before the current call whose response had not
\* been read when the call began.
StartUnread == (Len(wire) - CountOk("send")) - (Reads - CountOk("recv"))

\* C17 as stated: every call made after a call that returned before its
\* response was read, and that gets a response, reads the response of the
\* request just before its own and fails with the id mismatch.
C17_ReadsPreviousResponse ==
    (Answered /\ StartUnread >= 1) =>
        /\ Unwrap(res).id = Some(wire[Len(wire) - 1].id)
        /\ Unwrap(proto) = Err(MismatchError)

\* C17, amended: a call that begins with unread responses outstanding
\* fails; if it reads a response, it is the oldest unread one, which is the
\* response of an earlier request (of the request just before when only
\* one response was outstanding), and the call fails with the id mismatch;
\* and unread responses are still outstanding when the call has returned.
C17_NeverResynchronises ==
    (Returned /\ StartUnread >= 1) =>
        /\ Unwrap(outcome).tag = "Err"
        /\ Len(wire) - Reads >= 1
        /\ res # None =>
              /\ Unwrap(proto) = Err(MismatchError)
              /\ Reads < Len(wire)
              /\ Unwrap(res).id = Some(wire[Reads].id)
              /\ StartUnread = 1 => Unwrap(res).id = Some(wire[Len(wire) - 1].id)

\* The third call reads the response of the first.
C17_Witness ==
    /\ Answered
    /\ StartUnread = 2
    /\ Len(wire) = 3
    /\ Unwrap(res).id = Some(wire[1].id)
    /\ Unwrap(proto) = Err(MismatchError)

\* The pid a pidfile with this content names ("" when it names none).
NamedPid(content) ==
    CASE content \in {"4242\n", "4242"} -> "4242"
      [] content = " 77 \n" -> "77"
      [] OTHER -> ""

\* The last operation made on OvsUnixCtl.
Last == Unwrap(ovs)

C15_NoConnectAtConstruction ==
    /\ connects = 0
    /\ stream = None
    /\ wire = << >>
    /\ (ovs # None /\ Last.op \in {"new", "with_target", "unix"}) =>
          /\ (Last.op # "unix" /\ find_socket(fsys, Last.a).tag = "Err") =>
                (Last.ret = find_socket(fsys, Last.a) /\ Last.ret.resp = None)
          /\ Last.ret.tag = "Ok" =>
                /\ Unwrap(Last.ret.resp).client.stream = None
                /\ ~Unwrap(Last.ret.resp).client.stream_client.opened

\* new() with an empty pidfile in the default run directory.
C15_Witness ==
    /\ ovs # None
    /\ Last.op = "new"
    /\ fsys.env = None
    /\ Last.ret.tag = "Err"
    /\ Contains("pidfile is empty", Unwrap(Last.ret.err).msg)
    /\ connects = 0

\* C16: a JSON error becomes Error::Socket exactly when its category is Io
\* and Error::Serialize for Syntax, Data and Eof; never another kind.
C16_ErrorClassification ==
    (ovs # None /\ Last.op = "from") =>
        /\ Last.ret.kind = "Socket" <=> Last.a = "Io"
        /\ Last.a \in {"Syntax", "Data", "Eof"} => Last.ret.kind = "Serialize"
        /\ Last.ret.kind \notin {"Protocol", "Timeout", "Command"}

C16_Witness ==
    /\ ovs # None
    /\ Last.op = "from"
    /\ Last.a = "Io"
    /\ Last.ret.kind = "Socket"

====
